---- MODULE Spec2Model ----
(***************************************************************************)
(* Model of the merge engine of scripts/sync_proto.py: parse_proto_file,   *)
(* transform_import_path, filter_excluded_definitions,                     *)
(* remove_options_from_rpc_blocks, cleanup_empty_rpc_blocks and            *)
(* merge_proto_files.                                                      *)
(*                                                                         *)
(* A line of text is a sequence of tokens.  A token is a string that the   *)
(* code never looks inside of, except through the predicates below         *)
(* (whitespace, braces, word characters, a trailing "rpc").  The text of a *)
(* line is the concatenation of its tokens.  Indices i, j are 0-based as   *)
(* in the source, so body_lines[i] of the source is body_lines[i + 1].     *)
(***************************************************************************)
EXTENDS Integers, Sequences, FiniteSets, TLC

VARIABLES fn, filter, strip, cleanup, parse, merge

vars == <<fn, filter, strip, cleanup, parse, merge>>

\* The frame of a function that is not running.
NoFrame == [pc |-> "idle"]

----------------------------------------------------------------------------
(* Tokens and the string operations of the source, on token sequences.     *)

\* str.isspace on a token: runs of blanks.
IsSpace(t) == t \in {" ", "  ", "    "}

\* Tokens made of word characters only (\w+).
Words == {"Foo", "Bar", "Qux", "Get", "Svc", "Grpc", "kind", "rpc", "message",
          "service", "oneof", "import", "package", "banyandb", "v1", "common",
          "model", "google", "validate", "protobuf", "timestamp", "api",
          "annotations", "query", "write"}

IsWord(t) == t \in Words

\* A token whose text ends with the three characters r, p, c.
EndsWithRpc(t) == t \in {"rpc", "Grpc"}

RECURSIVE LStrip(_)
LStrip(s) == IF s # <<>> /\ IsSpace(Head(s)) THEN LStrip(Tail(s)) ELSE s

RECURSIVE RStrip(_)
RStrip(s) ==
    IF s # <<>> /\ IsSpace(s[Len(s)]) THEN RStrip(SubSeq(s, 1, Len(s) - 1)) ELSE s

\* str.strip()
Strip(s) == LStrip(RStrip(s))

\* str.rstrip('{'): every trailing "{" goes.
RECURSIVE RStripBrace(_)
RStripBrace(s) ==
    IF s # <<>> /\ s[Len(s)] = "{" THEN RStripBrace(SubSeq(s, 1, Len(s) - 1)) ELSE s

\* str.count(c) for a one-character token c.
Count(s, c) == Cardinality({k \in 1..Len(s) : s[k] = c})

\* stripped.count('{') - stripped.count('}')
BraceBalance(s) == Count(s, "{") - Count(s, "}")

\* s.startswith(kw + ' ') for a keyword token kw.
StartsWithKw(s, kw) == Len(s) >= 2 /\ s[1] = kw /\ IsSpace(s[2])

\* s.startswith(p) for a pattern p that is one token.
StartsWithTok(s, p) == Len(s) >= 1 /\ s[1] = p

\* pat in s, for a token sequence pat.
Contains(s, pat) ==
    \E k \in 0..(Len(s) - Len(pat)) : SubSeq(s, k + 1, k + Len(pat)) = pat

\* 'rpc ' in s: the characters r, p, c followed by a blank.
ContainsRpcSp(s) == \E k \in 1..(Len(s) - 1) : EndsWithRpc(s[k]) /\ IsSpace(s[k + 1])

EndsWith(s, c) == Len(s) >= 1 /\ s[Len(s)] = c

\* not line.strip()
IsBlank(line) == Strip(line) = <<>>

\* re.match(kw + r'\s+(\w+)', stripped).group(1), or "" when there is no match.
RECURSIVE SkipSpaces(_, _)
SkipSpaces(s, k) == IF k <= Len(s) /\ IsSpace(s[k]) THEN SkipSpaces(s, k + 1) ELSE k

DefName(s, kw) ==
    IF ~StartsWithKw(s, kw) THEN ""
    ELSE LET k == SkipSpaces(s, 2)
         IN  IF k <= Len(s) /\ IsWord(s[k]) THEN s[k] ELSE ""

\* SKIP_PATTERNS
OptionBlocks == {<<"option (google.api.http)">>}
LinePrefixes == {"option go_package"}
LineContains == {<<"option (grpc.gateway.protoc_gen_openapiv2.options.openapiv2_swagger)">>}

\* A variant that leaves the brace on the line.
RpcSingleLineKeepsBrace(rpc_line) == RStrip(rpc_line) \o <<";">>

\* rpc_line.rstrip().rstrip('{').rstrip() + ';'
RpcSingleLine(rpc_line) == RStrip(RStripBrace(RStrip(rpc_line))) \o <<";">>

----------------------------------------------------------------------------
(* parse_proto_file                                                        *)

\* Python's None for a header field; a captured line is never empty.
None == <<>>

ImportContains == {<<"google", "/", "api", "/", "annotations", ".proto">>,
                   <<"protoc-gen-openapiv2", "/", "options", "/", "annotations", ".proto">>}

\* One iteration of `for i, line in enumerate(lines)`.
ParseIter(p) ==
    LET line == p.lines[p.i + 1]
        stripped == Strip(line)
        is_comment == \/ StartsWithTok(stripped, "//")
                      \/ StartsWithTok(stripped, "/*")
                      \/ /\ StartsWithTok(stripped, "*")
                         /\ p.i > 0
                         /\ Contains(p.lines[p.i], <<"/*">>)
        next == [p EXCEPT !.i = @ + 1]
        \* the state after the license test, when the line falls through
        q == [next EXCEPT !.license_done = TRUE]
        balance == BraceBalance(stripped)
        \* the `for option_pattern` loop: its continue is the inner loop's
        matched == q.syntax_done /\ \E pattern \in OptionBlocks : Contains(stripped, pattern)
        depth1 == IF matched THEN balance ELSE q.brace_depth
        http1 == IF matched /\ balance > 0 THEN TRUE ELSE q.in_http_option
        depth2 == depth1 + balance
        r == [q EXCEPT !.brace_depth = depth1, !.in_http_option = http1]
    IN  IF ~p.license_done /\ is_comment
        THEN [next EXCEPT !.license = Append(@, line)]
        ELSE IF ~p.license_done /\ stripped = <<>>
        THEN q
        ELSE IF ~q.syntax_done /\ stripped = <<>>
        THEN q
        ELSE IF ~q.syntax_done /\ StartsWithTok(stripped, "syntax =")
        THEN [q EXCEPT !.syntax = line, !.syntax_done = TRUE]
        ELSE IF StartsWithTok(stripped, "option java_package")
        THEN IF q.java_package = None THEN [q EXCEPT !.java_package = line] ELSE q
        ELSE IF \E prefix \in LinePrefixes : StartsWithTok(stripped, prefix)
        THEN q
        ELSE IF \E pattern \in LineContains : Contains(stripped, pattern)
        THEN q
        ELSE IF q.syntax_done /\ http1
        THEN [q EXCEPT !.brace_depth = depth2, !.in_http_option = ~(depth2 <= 0)]
        ELSE IF ~r.package_done /\ StartsWithKw(stripped, "package")
        THEN [r EXCEPT !.package = line, !.package_done = TRUE]
        ELSE IF StartsWithKw(stripped, "import")
        THEN IF \E pattern \in ImportContains : Contains(line, pattern)
             THEN r
             ELSE [r EXCEPT !.imports = Append(@, line)]
        ELSE IF r.syntax_done /\ r.package_done /\ ~r.in_http_option
        THEN [r EXCEPT !.body = Append(@, line)]
        ELSE r

\* content.split('\n') is the argument: a text always has at least one line.
ParseEnter(lines) ==
    [lines |-> lines, license |-> <<>>, syntax |-> None, java_package |-> None,
     package |-> None, imports |-> <<>>, body |-> <<>>, license_done |-> FALSE,
     syntax_done |-> FALSE, package_done |-> FALSE, in_http_option |-> FALSE,
     brace_depth |-> 0, i |-> 0, pc |-> "loop"]

RECURSIVE ParseRun(_)
ParseRun(p) ==
    IF p.pc = "done" THEN p
    ELSE IF p.i < Len(p.lines) THEN ParseRun(ParseIter(p))
    ELSE [p EXCEPT !.pc = "done"]

\* The dict the function returns.
parse_proto_file(lines) ==
    LET p == ParseRun(ParseEnter(lines))
    IN  [license |-> p.license, syntax |-> p.syntax, java_package |-> p.java_package,
         package |-> p.package, imports |-> p.imports, body |-> p.body]

----------------------------------------------------------------------------
(* filter_excluded_definitions                                             *)

\* A variant that ends the definition one closing brace later.
DefinitionEndedStrict(brace_depth) == brace_depth < 0

\* `if brace_depth <= 0`: the skipped definition ends with this line.
DefinitionEnded(brace_depth) == brace_depth <= 0

\* One iteration of `while i < len(body_lines)`.
FilterIter(f) ==
    LET line == f.body_lines[f.i + 1]
        stripped == Strip(line)
        depth == f.brace_depth + BraceBalance(stripped)
        message_name == DefName(stripped, "message")
        rpc_name == DefName(stripped, "rpc")
    IN  IF f.skip_until_close
        THEN IF DefinitionEnded(depth)
             THEN [f EXCEPT !.skip_until_close = FALSE, !.brace_depth = 0, !.i = @ + 1]
             ELSE [f EXCEPT !.brace_depth = depth, !.i = @ + 1]
        ELSE IF /\ f.exclude_messages # {}
                /\ StartsWithKw(stripped, "message")
                /\ message_name # ""
                /\ message_name \in f.exclude_messages
        THEN [f EXCEPT !.skip_until_close = TRUE,
                       !.brace_depth = BraceBalance(stripped), !.i = @ + 1]
        ELSE IF /\ f.exclude_rpcs # {}
                /\ StartsWithKw(stripped, "rpc")
                /\ rpc_name # ""
                /\ rpc_name \in f.exclude_rpcs
                /\ EndsWith(stripped, ";")
        THEN [f EXCEPT !.i = @ + 1]
        ELSE IF /\ f.exclude_rpcs # {}
                /\ StartsWithKw(stripped, "rpc")
                /\ rpc_name # ""
                /\ rpc_name \in f.exclude_rpcs
                /\ Count(stripped, "{") > 0
        THEN [f EXCEPT !.skip_until_close = TRUE,
                       !.brace_depth = BraceBalance(stripped), !.i = @ + 1]
        ELSE [f EXCEPT !.result = Append(@, line), !.i = @ + 1]

\* The frame on entry, after the early return test.
FilterEnter(body_lines, exclude_messages, exclude_rpcs) ==
    LET f0 == [body_lines |-> body_lines, exclude_messages |-> exclude_messages,
               exclude_rpcs |-> exclude_rpcs, result |-> <<>>, i |-> 0,
               skip_until_close |-> FALSE, brace_depth |-> 0, pc |-> "loop"]
    IN  IF body_lines = <<>> \/ (exclude_messages = {} /\ exclude_rpcs = {})
        THEN [f0 EXCEPT !.result = body_lines, !.pc = "done"]
        ELSE f0

RECURSIVE FilterRun(_)
FilterRun(f) ==
    IF f.pc = "done" THEN f
    ELSE IF f.i < Len(f.body_lines) THEN FilterRun(FilterIter(f))
    ELSE [f EXCEPT !.pc = "done"]

\* The function as a whole: the list it returns.
filter_excluded_definitions(body_lines, exclude_messages, exclude_rpcs) ==
    FilterRun(FilterEnter(body_lines, exclude_messages, exclude_rpcs)).result

----------------------------------------------------------------------------
(* remove_options_from_rpc_blocks                                          *)

\* 'rpc ' in stripped and stripped.endswith('{')
IsRpcOpener(line) == ContainsRpcSp(Strip(line)) /\ EndsWith(Strip(line), "{")

\* A line that starts another rpc, service or message definition.
StartsDefinition(line) ==
    \/ StartsWithKw(Strip(line), "rpc")
    \/ StartsWithKw(Strip(line), "service")
    \/ StartsWithKw(Strip(line), "message")

\* any(pattern in block_stripped for pattern in SKIP_PATTERNS['option_blocks'])
IsSkipOption(line) == \E pattern \in OptionBlocks : Contains(Strip(line), pattern)

\* The inner `while j < len(body_lines)`: how it ends, and with what.
RECURSIVE ScanBlock(_, _, _, _)
ScanBlock(body_lines, j, block_content, option_count) ==
    IF ~(j < Len(body_lines))
    THEN [how |-> "eof", j |-> j, block_content |-> block_content,
          option_count |-> option_count]
    ELSE LET block_line == body_lines[j + 1]
         IN  IF StartsDefinition(block_line)
             THEN [how |-> "definition", j |-> j, block_content |-> block_content,
                   option_count |-> option_count]
             ELSE IF Strip(block_line) = <<"}">>
             THEN [how |-> "close", j |-> j, block_content |-> block_content,
                   option_count |-> option_count]
             ELSE IF IsSkipOption(block_line)
             THEN ScanBlock(body_lines, j + 1, block_content, option_count + 1)
             ELSE ScanBlock(body_lines, j + 1, Append(block_content, block_line),
                            option_count)

\* any(line.strip() for line in block_content)
HasNonEmptyContent(block_content) ==
    \E k \in 1..Len(block_content) : ~IsBlank(block_content[k])

\* Variants that resume after the offending line, and before it.
MalformedResumeSkips(j) == j + 1

MalformedResumeStuck(j) == j - 1

\* `i = j` on the malformed path: scanning resumes at the offending line.
MalformedResume(j) == j

\* One iteration of the outer `while i < len(body_lines)`.  branch names the
\* path the iteration took; from is the index it started at.
StripIter(s) ==
    LET line == s.body_lines[s.i + 1]
        scan == ScanBlock(s.body_lines, s.i + 1, <<>>, 0)
        single == RpcSingleLine(line)
    IN  IF ~IsRpcOpener(line)
        THEN [s EXCEPT !.result = Append(@, line), !.i = @ + 1,
                       !.branch = "plain", !.from = s.i]
        ELSE IF scan.how = "definition"
        THEN [s EXCEPT !.result = Append(@, single), !.i = MalformedResume(scan.j),
                       !.branch = "malformed", !.from = s.i]
        ELSE IF scan.how = "close" /\ HasNonEmptyContent(scan.block_content)
        THEN [s EXCEPT !.result = (@ \o <<line>> \o scan.block_content)
                                    \o <<s.body_lines[scan.j + 1]>>,
                       !.i = scan.j + 1, !.branch = "kept", !.from = s.i]
        ELSE IF scan.how = "close" /\ scan.option_count > 0
        THEN [s EXCEPT !.result = Append(@, single), !.i = scan.j + 1,
                       !.branch = "collapsed", !.from = s.i]
        ELSE IF scan.how = "close"
        THEN [s EXCEPT !.result = Append(@, single), !.i = scan.j,
                       !.branch = "unconsumed", !.from = s.i]
        ELSE [s EXCEPT !.result = Append(@, single), !.i = @ + 1,
                       !.branch = "eof", !.from = s.i]

StripEnter(body_lines) ==
    LET s0 == [body_lines |-> body_lines, result |-> <<>>, i |-> 0,
               branch |-> "enter", from |-> 0, pc |-> "loop"]
    IN  IF body_lines = <<>> THEN [s0 EXCEPT !.pc = "done"] ELSE s0

RECURSIVE StripRun(_)
StripRun(s) ==
    IF s.pc = "done" THEN s
    ELSE IF s.i < Len(s.body_lines) THEN StripRun(StripIter(s))
    ELSE [s EXCEPT !.pc = "done"]

remove_options_from_rpc_blocks(body_lines) == StripRun(StripEnter(body_lines)).result

----------------------------------------------------------------------------
(* cleanup_empty_rpc_blocks                                                *)

\* `while j < len(body_lines) and not body_lines[j].strip(): j += 1`
RECURSIVE SkipEmpty(_, _)
SkipEmpty(body_lines, j) ==
    IF j < Len(body_lines) /\ IsBlank(body_lines[j + 1])
    THEN SkipEmpty(body_lines, j + 1)
    ELSE j

CleanupIter(c) ==
    LET line == c.body_lines[c.i + 1]
        j == SkipEmpty(c.body_lines, c.i + 1)
    IN  IF /\ IsRpcOpener(line)
           /\ j < Len(c.body_lines)
           /\ Strip(c.body_lines[j + 1]) = <<"}">>
        THEN [c EXCEPT !.result = Append(@, RpcSingleLine(line)), !.i = j + 1]
        ELSE [c EXCEPT !.result = Append(@, line), !.i = @ + 1]

CleanupEnter(body_lines) ==
    LET c0 == [body_lines |-> body_lines, result |-> <<>>, i |-> 0, pc |-> "loop"]
    IN  IF body_lines = <<>> THEN [c0 EXCEPT !.pc = "done"] ELSE c0

RECURSIVE CleanupRun(_)
CleanupRun(c) ==
    IF c.pc = "done" THEN c
    ELSE IF c.i < Len(c.body_lines) THEN CleanupRun(CleanupIter(c))
    ELSE [c EXCEPT !.pc = "done"]

cleanup_empty_rpc_blocks(body_lines) == CleanupRun(CleanupEnter(body_lines)).result

----------------------------------------------------------------------------
(* transform_import_path                                                   *)

\* Index of the first "/" token at or after k, or 0.
RECURSIVE NextSlash(_, _)
NextSlash(s, k) ==
    IF k > Len(s) THEN 0 ELSE IF s[k] = "/" THEN k ELSE NextSlash(s, k + 1)

\* Largest e >= lo with s[e] = ".proto" and no quote in s[lo..e], or 0:
\* the greedy [^"]+\.proto, which needs one character before ".proto".
ProtoEnd(s, lo) ==
    LET ends == {e \in (lo + 1)..Len(s) :
                    /\ s[e] = ".proto"
                    /\ \A x \in lo..e : s[x] # "\""}
    IN  IF ends = {} THEN 0 ELSE CHOOSE e \in ends : \A d \in ends : d <= e

\* A match of r'banyandb/([^/]+)/v1/[^"]+\.proto' starting at token k.
ImportMatch(s, k) ==
    LET m == NextSlash(s, k + 2)
        e == IF m = 0 THEN 0 ELSE ProtoEnd(s, m + 3)
    IN  IF /\ k + 1 <= Len(s)
           /\ s[k] = "banyandb"
           /\ s[k + 1] = "/"
           /\ m > k + 2
           /\ m + 2 <= Len(s)
           /\ s[m + 1] = "v1"
           /\ s[m + 2] = "/"
           /\ e # 0
        THEN [ok |-> TRUE, module |-> SubSeq(s, k + 2, m - 1), end |-> e]
        ELSE [ok |-> FALSE, module |-> <<>>, end |-> 0]

\* f'banyandb/v1/banyandb-{module}.proto'
MergedPath(module) ==
    <<"banyandb", "/", "v1", "/", "banyandb", "-">> \o module \o <<".proto">>

\* re.sub from token k on: every match, left to right, is replaced.
RECURSIVE ReSub(_, _)
ReSub(s, k) ==
    IF k > Len(s) THEN <<>>
    ELSE LET mt == ImportMatch(s, k)
         IN  IF mt.ok THEN MergedPath(mt.module) \o ReSub(s, mt.end + 1)
             ELSE <<s[k]>> \o ReSub(s, k + 1)

transform_import_path(import_line) == ReSub(import_line, 1)

----------------------------------------------------------------------------
(* Python's order on strings: by code point, character by character.       *)

TokenCodes(t) ==
    CASE t = "import" -> <<105, 109, 112, 111, 114, 116>>
    [] t = " " -> <<32>>
    [] t = "  " -> <<32, 32>>
    [] t = "\"" -> <<34>>
    [] t = "/" -> <<47>>
    [] t = ";" -> <<59>>
    [] t = "-" -> <<45>>
    [] t = ".proto" -> <<46, 112, 114, 111, 116, 111>>
    [] t = "banyandb" -> <<98, 97, 110, 121, 97, 110, 100, 98>>
    [] t = "v1" -> <<118, 49>>
    [] t = "common" -> <<99, 111, 109, 109, 111, 110>>
    [] t = "model" -> <<109, 111, 100, 101, 108>>
    [] t = "google" -> <<103, 111, 111, 103, 108, 101>>
    [] t = "validate" -> <<118, 97, 108, 105, 100, 97, 116, 101>>
    [] t = "protobuf" -> <<112, 114, 111, 116, 111, 98, 117, 102>>
    [] t = "timestamp" -> <<116, 105, 109, 101, 115, 116, 97, 109, 112>>
    [] t = "api" -> <<97, 112, 105>>
    [] t = "annotations" -> <<97, 110, 110, 111, 116, 97, 116, 105, 111, 110, 115>>
    [] t = "query" -> <<113, 117, 101, 114, 121>>
    [] t = "write" -> <<119, 114, 105, 116, 101>>
    [] t = "rpc" -> <<114, 112, 99>>

\* The characters of a line, as code points.
RECURSIVE LineCodes(_)
LineCodes(s) == IF s = <<>> THEN <<>> ELSE TokenCodes(Head(s)) \o LineCodes(Tail(s))

\* a < b for two sequences of code points.
RECURSIVE CodesLess(_, _)
CodesLess(a, b) ==
    IF b = <<>> THEN FALSE
    ELSE IF a = <<>> THEN TRUE
    ELSE IF Head(a) # Head(b) THEN Head(a) < Head(b)
    ELSE CodesLess(Tail(a), Tail(b))

StrLess(x, y) == CodesLess(LineCodes(x), LineCodes(y))

----------------------------------------------------------------------------
(* merge_proto_files                                                       *)

\* A variant that puts the validate/ imports first.
ImportTierValidateFirst(x) ==
    IF Contains(x, <<"validate", "/">>) THEN 0
    ELSE IF Contains(x, <<"google", "/">>) THEN 1 ELSE 2

\* 0 if 'google/' in x else (1 if 'validate/' in x else 2)
ImportTier(x) ==
    IF Contains(x, <<"google", "/">>) THEN 0
    ELSE IF Contains(x, <<"validate", "/">>) THEN 1 ELSE 2

\* The sort key (tier, x) of two import lines compared.
ImportKeyLess(x, y) ==
    \/ ImportTier(x) < ImportTier(y)
    \/ ImportTier(x) = ImportTier(y) /\ StrLess(x, y)

\* sorted(all_imports, key=...)
RECURSIVE SortImports(_)
SortImports(S) ==
    IF S = {} THEN <<>>
    ELSE LET first == CHOOSE x \in S : \A y \in S \ {x} : ImportKeyLess(x, y)
         IN  <<first>> \o SortImports(S \ {first})

\* A variant that looks for the module's path as it was before rewriting.
IsSelfImportSourcePath(transformed_imp, current_module) ==
    /\ current_module # ""
    /\ Contains(transformed_imp, <<"banyandb", "/", current_module, "/", "v1", "/">>)

\* The self-import test, on the rewritten line.  current_module is "" for None.
IsSelfImport(transformed_imp, current_module) ==
    /\ current_module # ""
    /\ Contains(transformed_imp, MergedPath(<<current_module>>))

\* The imports one parsed file adds to all_imports.
FileImports(parsed, current_module) ==
    {transform_import_path(Strip(parsed.imports[k])) : k \in 1..Len(parsed.imports)}
        \ {x \in {transform_import_path(Strip(parsed.imports[k])) :
                      k \in 1..Len(parsed.imports)} :
              IsSelfImport(x, current_module)}

\* `while body_lines and not body_lines[0].strip(): body_lines.pop(0)`
RECURSIVE TrimLeading(_)
TrimLeading(ls) == IF ls # <<>> /\ IsBlank(Head(ls)) THEN TrimLeading(Tail(ls)) ELSE ls

\* `while body_lines and not body_lines[-1].strip(): body_lines.pop()`
RECURSIVE TrimTrailing(_)
TrimTrailing(ls) ==
    IF ls # <<>> /\ IsBlank(ls[Len(ls)]) THEN TrimTrailing(SubSeq(ls, 1, Len(ls) - 1))
    ELSE ls

\* The secondary filter on line_prefixes and line_contains.
IsSkippedLine(line) ==
    \/ \E prefix \in LinePrefixes : StartsWithTok(Strip(line), prefix)
    \/ \E pattern \in LineContains : Contains(Strip(line), pattern)

SkipFilter(ls) == SelectSeq(ls, LAMBDA line : ~IsSkippedLine(line))

\* What one parsed file's body becomes before it is appended to merged.
BodyOf(parsed, exclude_messages, exclude_rpcs) ==
    LET trimmed == TrimTrailing(TrimLeading(parsed.body))
        kept == SkipFilter(trimmed)
        filtered == IF exclude_messages # {} \/ exclude_rpcs # {}
                    THEN filter_excluded_definitions(kept, exclude_messages, exclude_rpcs)
                    ELSE kept
    IN  IF parsed.body = <<>> THEN <<>>
        ELSE cleanup_empty_rpc_blocks(remove_options_from_rpc_blocks(filtered))

\* '\n'.join(merged) + '\n', as the tokens of the text with "\n" between lines.
RECURSIVE JoinLines(_)
JoinLines(ls) ==
    IF ls = <<>> THEN <<>>
    ELSE IF Len(ls) = 1 THEN Head(ls)
    ELSE Head(ls) \o <<"\n">> \o JoinLines(Tail(ls))

\* Entry: the early return, and the parse of every content.
MergeEnter(proto_contents, current_module, exclude_messages, exclude_rpcs) ==
    LET m0 == [proto_contents |-> proto_contents, current_module |-> current_module,
               exclude_messages |-> exclude_messages, exclude_rpcs |-> exclude_rpcs,
               parsed_files |-> <<>>, merged |-> <<>>, all_imports |-> {},
               i |-> 0, text |-> <<>>, pc |-> "call"]
    IN  m0

MergeParse(m) ==
    IF m.proto_contents = <<>>
    THEN [m EXCEPT !.text = <<>>, !.pc = "done"]
    ELSE [m EXCEPT !.parsed_files = [k \in 1..Len(m.proto_contents) |->
                                        parse_proto_file(m.proto_contents[k])],
                   !.pc = "header"]

\* parsed_files[0]: the file the header fields are taken from.
HeaderFile(parsed_files) == parsed_files[1]

\* Steps 1 to 4: the header fields of the first file.
MergeHeader(m) ==
    LET first == HeaderFile(m.parsed_files)
        license == IF first.license # <<>> THEN first.license \o <<<<>>>> ELSE <<>>
        syntax == IF first.syntax # None THEN <<first.syntax, <<>>>> ELSE <<>>
        java_package == IF first.java_package # None
                        THEN <<first.java_package, <<>>>> ELSE <<>>
        package == IF first.package # None THEN <<first.package, <<>>>> ELSE <<>>
    IN  [m EXCEPT !.merged = (((@ \o license) \o syntax) \o java_package) \o package,
                  !.pc = "imports"]

\* Step 5: all_imports, sorted into merged.
MergeImports(m) ==
    LET all_imports == UNION {FileImports(m.parsed_files[k], m.current_module) :
                                 k \in 1..Len(m.parsed_files)}
    IN  [m EXCEPT !.all_imports = all_imports,
                  !.merged = IF all_imports # {}
                             THEN (@ \o SortImports(all_imports)) \o <<<<>>>>
                             ELSE @,
                  !.pc = "bodies"]

\* Step 6: one iteration of `for i, parsed in enumerate(parsed_files)`.
MergeBody(m) ==
    LET body_lines == BodyOf(m.parsed_files[m.i + 1], m.exclude_messages, m.exclude_rpcs)
        sep == IF m.i > 0 THEN <<<<>>>> ELSE <<>>
    IN  [m EXCEPT !.merged = IF body_lines # <<>> THEN (@ \o sep) \o body_lines ELSE @,
                  !.i = @ + 1]

\* The trailing trim and the join.
MergeFinish(m) ==
    LET merged == TrimTrailing(m.merged)
    IN  [m EXCEPT !.merged = merged, !.text = JoinLines(merged) \o <<"\n">>,
                  !.pc = "done"]

RECURSIVE MergeRun(_)
MergeRun(m) ==
    IF m.pc = "done" THEN m
    ELSE IF m.pc = "call" THEN MergeRun(MergeParse(m))
    ELSE IF m.pc = "header" THEN MergeRun(MergeHeader(m))
    ELSE IF m.pc = "imports" THEN MergeRun(MergeImports(m))
    ELSE IF m.i < Len(m.parsed_files) THEN MergeRun(MergeBody(m))
    ELSE MergeRun(MergeFinish(m))

merge_proto_files(proto_contents, current_module, exclude_messages, exclude_rpcs) ==
    MergeRun(MergeEnter(proto_contents, current_module, exclude_messages,
                        exclude_rpcs)).text

----------------------------------------------------------------------------
(* Inputs.  Lines of .proto text as the upstream files write them.         *)

\* Lines of a body given to one of the body functions.
MaxBody == 5
\* Lines after the header of a document given to parse_proto_file.
MaxParse == 4
\* Documents of one merge.
MaxDocs == 2
\* Import lines, and body lines, of all documents of one merge together.
MaxImports == 4
MaxDocBody == 5
\* Lines of an input when every function is run (termination).
MaxLines == 3
\* rpc definitions in the service of a document.
MaxRpcs == 2

\* Every sequence over S of length at most n.
SeqsUpTo(S, n) == UNION {[1..k -> S] : k \in 0..n}

Sig == "(Req) returns (Res)"

LBlank == <<>>
LMessageFoo == <<"message", " ", "Foo", " ", "{">>
LMessageFooEmpty == <<"message", " ", "Foo", " ", "{", "}">>
LMessageQux == <<"message", " ", "Qux", " ", "{">>
LMessageQuxEmpty == <<"message", " ", "Qux", " ", "{", "}">>
LField == <<"  ", "string name = 1", ";">>
LClose == <<"}">>
LCloseIn == <<"  ", "}">>
LRpcBarSemi == <<"  ", "rpc", " ", "Bar", Sig, ";">>
LRpcBarOpen == <<"  ", "rpc", " ", "Bar", Sig, " ", "{">>
LRpcBarEmpty == <<"  ", "rpc", " ", "Bar", Sig, " ", "{", "}">>
LRpcGetSemi == <<"  ", "rpc", " ", "Get", Sig, ";">>
LRpcGetOpen == <<"  ", "rpc", " ", "Get", Sig, " ", "{">>
LServiceGrpc == <<"service", " ", "Grpc", " ", "{">>
LOptionLine == <<"    ", "option (google.api.http)", " ", "=", " ", "{",
                 "get: \"/v1/x\"", "}", ";">>
LOptionOpen == <<"    ", "option (google.api.http)", " ", "=", " ", "{">>
LOptionGet == <<"      ", "get: \"/v1/x\"">>
LOptionEnd == <<"    ", "}", ";">>

\* Bodies given to filter_excluded_definitions.
FilterLines == {LMessageFoo, LMessageFooEmpty, LMessageQux, LField, LClose,
                LRpcBarSemi, LRpcBarOpen, LRpcBarEmpty}

\* Bodies given to remove_options_from_rpc_blocks.
StripLines == {LRpcGetOpen, LOptionLine, LCloseIn, LBlank, LField, LMessageQux,
               LRpcGetSemi, LServiceGrpc}

\* Bodies given to cleanup_empty_rpc_blocks.
CleanupLines == {LRpcGetOpen, LCloseIn, LBlank, LField, LClose}

ExcludeMessages == {{}, {"Foo"}}
ExcludeRpcs == {{}, {"Bar"}}

\* Header lines, in two wordings so that the document a line came from shows.
LLicense(v) == IF v = "A" THEN <<"//", " ", "Licensed to the ASF">>
               ELSE <<"//", " ", "Licensed to another">>
LSyntax(v) == IF v = "A" THEN <<"syntax =", " ", "\"proto3\"", ";">>
              ELSE <<"syntax =", " ", "\"proto2\"", ";">>
LJavaPackage(v) == IF v = "A" THEN <<"option java_package", " ", "=", " ", "\"org.a\"", ";">>
                   ELSE <<"option java_package", " ", "=", " ", "\"org.b\"", ";">>
LPackage(v) == IF v = "A" THEN <<"package", " ", "banyandb.a.v1", ";">>
               ELSE <<"package", " ", "banyandb.b.v1", ";">>

\* import "<path>";
ImportLine(path) == (<<"import", " ", "\"">> \o path) \o <<"\"", ";">>

IGoogle == ImportLine(<<"google", "/", "protobuf", "/", "timestamp", ".proto">>)
IValidate == ImportLine(<<"validate", "/", "validate", ".proto">>)
ICommon == ImportLine(<<"banyandb", "/", "common", "/", "v1", "/", "common", ".proto">>)
ICommonRpc == <<"  ">> \o
    ImportLine(<<"banyandb", "/", "common", "/", "v1", "/", "rpc", ".proto">>)
IModel == ImportLine(<<"banyandb", "/", "model", "/", "v1", "/", "query", ".proto">>)
IAnnotations == ImportLine(<<"google", "/", "api", "/", "annotations", ".proto">>)

ImportLines == {IGoogle, IValidate, ICommon, ICommonRpc, IModel, IAnnotations}

\* current_module: None, or a module of MODULES.
CurrentModules == {"", "common", "model"}

\* The lines of a text that ends with a line terminator; [''] for the empty text.
TextLines(ls) == ls \o <<LBlank>>

\* A document: the header fields that mask names, in wording v, then a body.
\* The body may be a definition, or a line that repeats the syntax or the
\* package line.
HeaderDoc(v, mask, body) ==
    TextLines(((((IF "license" \in mask THEN <<LLicense(v), LBlank>> ELSE <<>>)
        \o (IF "syntax" \in mask THEN <<LSyntax(v)>> ELSE <<>>))
        \o (IF "java_package" \in mask THEN <<LJavaPackage(v)>> ELSE <<>>))
        \o (IF "package" \in mask THEN <<LPackage(v)>> ELSE <<>>))
        \o body)

\* The bodies of those documents, in wording v.
HeaderBody(v, kind) ==
    CASE kind = "none" -> <<>>
      [] kind = "definition" -> <<LMessageQuxEmpty>>
      [] kind = "syntax" -> <<LSyntax(v)>>
      [] kind = "package" -> <<LPackage(v)>>

HeaderDocs ==
    {HeaderDoc(v, mask, HeaderBody(v, kind)) :
        v \in {"A", "B"},
        mask \in SUBSET {"license", "syntax", "java_package", "package"},
        kind \in {"none", "definition", "syntax", "package"}}

\* The ways to cut a list of len lines into n consecutive parts: the end of
\* each part but the last.
Cuts(n, len) ==
    {c \in [1..(n - 1) -> 0..len] : \A d \in 1..(n - 2) : c[d] <= c[d + 1]}

\* Part d of n of the list ls cut at c.
Part(ls, c, n, d) ==
    SubSeq(ls, (IF d = 1 THEN 0 ELSE c[d - 1]) + 1, IF d = n THEN Len(ls) ELSE c[d])

\* Documents with a full header that share out the lines ls.
SplitDocs(ls, c, n) ==
    [d \in 1..n |-> TextLines(<<LSyntax("A"), LPackage("A")>> \o Part(ls, c, n, d))]

\* Body lines of the documents of a merge.
MergeBodyLines == {LBlank, LField, LRpcBarSemi, LMessageQuxEmpty}

LServiceS == <<"service", " ", "S", " ", "{">>

RpcOpenLine(name) == <<"  ", "rpc", " ", name, Sig, " ", "{">>

\* One rpc definition of a service, in one of the ways it is written: on one
\* line, with a multi-line option block, with a one-line option, or with
\* nothing between its braces.
RpcDefinition(name, form) ==
    CASE form = "semi" -> <<<<"  ", "rpc", " ", name, Sig, ";">>>>
      [] form = "multi" -> <<RpcOpenLine(name), LOptionOpen, LOptionGet, LOptionEnd, LCloseIn>>
      [] form = "single" -> <<RpcOpenLine(name), LOptionLine, LCloseIn>>
      [] form = "empty" -> <<RpcOpenLine(name), LCloseIn>>

RpcDefinitions ==
    {RpcDefinition(name, form) :
        name \in {"Bar", "Get"}, form \in {"semi", "multi", "single", "empty"}}

\* The lines of a list of definitions.
RECURSIVE Concat(_)
Concat(defs) == IF defs = <<>> THEN <<>> ELSE Head(defs) \o Concat(Tail(defs))

\* What follows the service: nothing, or one message.
AfterService ==
    {<<>>, <<LMessageQux, LField, LClose>>, <<LMessageFoo, LField, LClose>>}

\* A well-formed document: the header, a service of up to n rpc definitions,
\* and what follows it.
ServiceDocs(n) ==
    {TextLines(((<<LSyntax("A"), LPackage("A"), LServiceS>> \o Concat(defs))
                    \o <<LClose>>) \o after) :
        defs \in SeqsUpTo(RpcDefinitions, n), after \in AfterService}

\* Lines after the header of a document given to parse_proto_file.
ParsePrefixes == {<<>>, <<LSyntax("A")>>, <<LSyntax("A"), LPackage("A")>>,
                  <<LPackage("A"), LSyntax("A")>>,
                  <<LLicense("A"), LBlank, LSyntax("A"), LPackage("A")>>}

ParseLines == {LRpcGetOpen, LOptionOpen, LOptionLine, LOptionEnd, LCloseIn, LField,
               LBlank, IGoogle}

----------------------------------------------------------------------------
(* The state machine: one function runs per behaviour, one loop iteration  *)
(* per step.                                                               *)

\* The frames filter_excluded_definitions can be entered with, on bodies of
\* at most n lines.
FilterFrames(n) ==
    {FilterEnter(body_lines, exclude_messages, exclude_rpcs) :
        body_lines \in SeqsUpTo(FilterLines, n),
        exclude_messages \in ExcludeMessages,
        exclude_rpcs \in ExcludeRpcs}

StripFrames(n) == {StripEnter(body_lines) : body_lines \in SeqsUpTo(StripLines, n)}

CleanupFrames(n) == {CleanupEnter(body_lines) : body_lines \in SeqsUpTo(CleanupLines, n)}

ParseFrames(n) ==
    {ParseEnter(TextLines(prefix \o rest)) :
        prefix \in ParsePrefixes, rest \in SeqsUpTo(ParseLines, n)}

\* The ways to share out up to n lines of S among up to MaxDocs documents.
Shares(S, n) ==
    UNION {UNION {{SplitDocs(ls, c, k) : c \in Cuts(k, Len(ls))} : k \in 1..MaxDocs} :
              ls \in SeqsUpTo(S, n)}

\* Merges of documents that share out up to n import lines.
MergeImportsFrames(n) ==
    {MergeEnter(proto_contents, current_module, {}, {}) :
        proto_contents \in Shares(ImportLines, n), current_module \in CurrentModules}

\* Merges of documents with any of the header fields, or none.
MergeHeaderFrames ==
    {MergeEnter(proto_contents, "common", {}, {}) :
        proto_contents \in UNION {[1..k -> HeaderDocs] : k \in 0..MaxDocs}}

\* Merges of documents that share out up to n body lines.
MergeBodyFrames(n) ==
    {MergeEnter(proto_contents, "common", {}, exclude_rpcs) :
        proto_contents \in Shares(MergeBodyLines, n), exclude_rpcs \in ExcludeRpcs}

\* Merges of a document with a service of up to n rpc definitions, alone or
\* followed by documents whose service is empty.
MergeServiceFrames(n) ==
    {MergeEnter(<<first>> \o rest, "common", exclude_messages, exclude_rpcs) :
        first \in ServiceDocs(n), rest \in SeqsUpTo(ServiceDocs(0), MaxDocs - 1),
        exclude_messages \in ExcludeMessages, exclude_rpcs \in ExcludeRpcs}

InitFilter ==
    /\ fn = "filter" /\ filter \in FilterFrames(MaxBody)
    /\ strip = NoFrame /\ cleanup = NoFrame /\ parse = NoFrame /\ merge = NoFrame

InitStrip ==
    /\ fn = "strip" /\ strip \in StripFrames(MaxBody)
    /\ filter = NoFrame /\ cleanup = NoFrame /\ parse = NoFrame /\ merge = NoFrame

InitCleanup ==
    /\ fn = "cleanup" /\ cleanup \in CleanupFrames(MaxBody)
    /\ filter = NoFrame /\ strip = NoFrame /\ parse = NoFrame /\ merge = NoFrame

InitParse ==
    /\ fn = "parse" /\ parse \in ParseFrames(MaxParse)
    /\ filter = NoFrame /\ strip = NoFrame /\ cleanup = NoFrame /\ merge = NoFrame

InitMergeImports ==
    /\ fn = "merge" /\ merge \in MergeImportsFrames(MaxImports)
    /\ filter = NoFrame /\ strip = NoFrame /\ cleanup = NoFrame /\ parse = NoFrame

InitMergeHeader ==
    /\ fn = "merge" /\ merge \in MergeHeaderFrames
    /\ filter = NoFrame /\ strip = NoFrame /\ cleanup = NoFrame /\ parse = NoFrame

InitMergeBody ==
    /\ fn = "merge" /\ merge \in MergeBodyFrames(MaxDocBody)
    /\ filter = NoFrame /\ strip = NoFrame /\ cleanup = NoFrame /\ parse = NoFrame

InitMergeService ==
    /\ fn = "merge" /\ merge \in MergeServiceFrames(MaxRpcs)
    /\ filter = NoFrame /\ strip = NoFrame /\ cleanup = NoFrame /\ parse = NoFrame

\* Nothing has been called yet.
Init ==
    /\ fn = "idle"
    /\ filter = NoFrame /\ strip = NoFrame /\ cleanup = NoFrame
    /\ parse = NoFrame /\ merge = NoFrame

\* The calls, on inputs of at most MaxLines lines.
FilterCall ==
    /\ fn = "idle" /\ fn' = "filter"
    /\ filter' \in FilterFrames(MaxLines)
    /\ UNCHANGED <<strip, cleanup, parse, merge>>

StripCall ==
    /\ fn = "idle" /\ fn' = "strip"
    /\ strip' \in StripFrames(MaxLines)
    /\ UNCHANGED <<filter, cleanup, parse, merge>>

CleanupCall ==
    /\ fn = "idle" /\ fn' = "cleanup"
    /\ cleanup' \in CleanupFrames(MaxLines)
    /\ UNCHANGED <<filter, strip, parse, merge>>

ParseCall ==
    /\ fn = "idle" /\ fn' = "parse"
    /\ parse' \in ParseFrames(MaxLines)
    /\ UNCHANGED <<filter, strip, cleanup, merge>>

MergeCall ==
    /\ fn = "idle" /\ fn' = "merge"
    /\ merge' \in (MergeImportsFrames(MaxLines) \cup MergeHeaderFrames)
                     \cup MergeBodyFrames(MaxLines)
    /\ UNCHANGED <<filter, strip, cleanup, parse>>

FilterStep ==
    /\ fn = "filter" /\ filter.pc = "loop"
    /\ filter.i < Len(filter.body_lines)
    /\ filter' = FilterIter(filter)
    /\ UNCHANGED <<fn, strip, cleanup, parse, merge>>

FilterReturn ==
    /\ fn = "filter" /\ filter.pc = "loop"
    /\ ~(filter.i < Len(filter.body_lines))
    /\ filter' = [filter EXCEPT !.pc = "done"]
    /\ UNCHANGED <<fn, strip, cleanup, parse, merge>>

StripStep ==
    /\ fn = "strip" /\ strip.pc = "loop"
    /\ strip.i < Len(strip.body_lines)
    /\ strip' = StripIter(strip)
    /\ UNCHANGED <<fn, filter, cleanup, parse, merge>>

StripReturn ==
    /\ fn = "strip" /\ strip.pc = "loop"
    /\ ~(strip.i < Len(strip.body_lines))
    /\ strip' = [strip EXCEPT !.pc = "done"]
    /\ UNCHANGED <<fn, filter, cleanup, parse, merge>>

CleanupStep ==
    /\ fn = "cleanup" /\ cleanup.pc = "loop"
    /\ cleanup.i < Len(cleanup.body_lines)
    /\ cleanup' = CleanupIter(cleanup)
    /\ UNCHANGED <<fn, filter, strip, parse, merge>>

CleanupReturn ==
    /\ fn = "cleanup" /\ cleanup.pc = "loop"
    /\ ~(cleanup.i < Len(cleanup.body_lines))
    /\ cleanup' = [cleanup EXCEPT !.pc = "done"]
    /\ UNCHANGED <<fn, filter, strip, parse, merge>>

ParseStep ==
    /\ fn = "parse" /\ parse.pc = "loop"
    /\ parse.i < Len(parse.lines)
    /\ parse' = ParseIter(parse)
    /\ UNCHANGED <<fn, filter, strip, cleanup, merge>>

ParseReturn ==
    /\ fn = "parse" /\ parse.pc = "loop"
    /\ ~(parse.i < Len(parse.lines))
    /\ parse' = [parse EXCEPT !.pc = "done"]
    /\ UNCHANGED <<fn, filter, strip, cleanup, merge>>

MergeParseStep ==
    /\ fn = "merge" /\ merge.pc = "call"
    /\ merge' = MergeParse(merge)
    /\ UNCHANGED <<fn, filter, strip, cleanup, parse>>

MergeHeaderStep ==
    /\ fn = "merge" /\ merge.pc = "header"
    /\ merge' = MergeHeader(merge)
    /\ UNCHANGED <<fn, filter, strip, cleanup, parse>>

MergeImportsStep ==
    /\ fn = "merge" /\ merge.pc = "imports"
    /\ merge' = MergeImports(merge)
    /\ UNCHANGED <<fn, filter, strip, cleanup, parse>>

MergeBodyStep ==
    /\ fn = "merge" /\ merge.pc = "bodies"
    /\ merge.i < Len(merge.parsed_files)
    /\ merge' = MergeBody(merge)
    /\ UNCHANGED <<fn, filter, strip, cleanup, parse>>

MergeFinishStep ==
    /\ fn = "merge" /\ merge.pc = "bodies"
    /\ ~(merge.i < Len(merge.parsed_files))
    /\ merge' = MergeFinish(merge)
    /\ UNCHANGED <<fn, filter, strip, cleanup, parse>>

NextFilter == FilterStep \/ FilterReturn
NextStrip == StripStep \/ StripReturn
NextCleanup == CleanupStep \/ CleanupReturn
NextParse == ParseStep \/ ParseReturn
NextMerge ==
    \/ MergeParseStep
    \/ MergeHeaderStep
    \/ MergeImportsStep
    \/ MergeBodyStep
    \/ MergeFinishStep

\* A call of one of the functions.
Calls == FilterCall \/ StripCall \/ CleanupCall \/ ParseCall \/ MergeCall

\* A step of the function that was called.
Steps == NextFilter \/ NextStrip \/ NextCleanup \/ NextParse \/ NextMerge

Next == Calls \/ Steps

SpecFilter == InitFilter /\ [][NextFilter]_vars
SpecStrip == InitStrip /\ [][NextStrip]_vars
SpecCleanup == InitCleanup /\ [][NextCleanup]_vars
SpecParse == InitParse /\ [][NextParse]_vars
SpecMergeImports == InitMergeImports /\ [][NextMerge]_vars
SpecMergeHeader == InitMergeHeader /\ [][NextMerge]_vars
SpecMergeBody == InitMergeBody /\ [][NextMerge]_vars
SpecMergeService == InitMergeService /\ [][NextMerge]_vars
Spec == Init /\ [][Next]_vars

\* merge_proto_files has been called and has not returned.  Its steps cover
\* every pc but "done", so this is ENABLED <<NextMerge>>_vars.
MergeRunning == fn = "merge" /\ merge.pc # "done"

\* The interpreter runs the one thread of the program to its end: a step of
\* the called function that can be taken is taken.  For merge_proto_files
\* the weak fairness condition is written out, with MergeRunning for
\* ENABLED <<NextMerge>>_vars.
SpecRun ==
    /\ Init /\ [][Next]_vars
    /\ WF_vars(NextFilter) /\ WF_vars(NextStrip)
    /\ WF_vars(NextCleanup) /\ WF_vars(NextParse)
    /\ ([]<>(~MergeRunning) \/ []<><<NextMerge>>_vars)

----------------------------------------------------------------------------
(* Claims about filter_excluded_definitions, under SpecFilter.             *)

\* Brace balance of lines a..b of a body.
RECURSIVE SumBalance(_, _, _)
SumBalance(ls, a, b) ==
    IF a > b THEN 0 ELSE BraceBalance(Strip(ls[a])) + SumBalance(ls, a + 1, b)

\* Braces open and close in matching pairs.
WellNested(ls) ==
    /\ \A p \in 1..Len(ls) : SumBalance(ls, 1, p) >= 0
    /\ SumBalance(ls, 1, Len(ls)) = 0

\* Line k defines an excluded message or rpc.
ExcludedMessageAt(f, k) ==
    LET name == DefName(Strip(f.body_lines[k]), "message")
    IN  name # "" /\ name \in f.exclude_messages

ExcludedRpcAt(f, k) ==
    LET name == DefName(Strip(f.body_lines[k]), "rpc")
    IN  name # "" /\ name \in f.exclude_rpcs

ExcludedDefAt(f, k) == ExcludedMessageAt(f, k) \/ ExcludedRpcAt(f, k)

\* The line that closes the definition opened at line k: the first one at
\* which the braces opened since line k are closed again (line k itself when
\* it opens none), or the last line when none does.
DefinitionClose(ls, k) ==
    LET closers == {m \in k..Len(ls) : SumBalance(ls, k, m) <= 0}
    IN  IF closers = {} THEN Len(ls) ELSE CHOOSE m \in closers : \A n \in closers : m <= n

\* The lines that are part of an excluded definition, and the body without them.
ExcludedIndices(f) ==
    {x \in 1..Len(f.body_lines) :
        \E k \in 1..x : ExcludedDefAt(f, k) /\ x <= DefinitionClose(f.body_lines, k)}

RECURSIVE KeepFrom(_, _, _)
KeepFrom(ls, drop, k) ==
    IF k > Len(ls) THEN <<>>
    ELSE IF k \in drop THEN KeepFrom(ls, drop, k + 1)
    ELSE <<ls[k]>> \o KeepFrom(ls, drop, k + 1)

WithoutExcluded(f) == KeepFrom(f.body_lines, ExcludedIndices(f), 1)

\* Every excluded definition is written as a multi-line block or, for an rpc,
\* as a semicolon-terminated line.
MultiLineForms(f) ==
    \A k \in 1..Len(f.body_lines) :
        LET s == Strip(f.body_lines[k])
        IN  /\ ExcludedMessageAt(f, k) => BraceBalance(s) > 0
            /\ ExcludedRpcAt(f, k) =>
                  EndsWith(s, ";") \/ (Count(s, "{") > 0 /\ BraceBalance(s) > 0)

\* An excluded name occurs in no line but the one that defines it.
NamesOnlyDefined(f) ==
    \A name \in f.exclude_messages \cup f.exclude_rpcs :
        Cardinality({k \in 1..Len(f.body_lines) :
                        \E t \in 1..Len(f.body_lines[k]) : f.body_lines[k][t] = name}) <= 1

MentionsExcluded(f, line) ==
    \E t \in 1..Len(line) : line[t] \in f.exclude_messages \cup f.exclude_rpcs

C1Case(f) ==
    /\ f.pc = "done"
    /\ WellNested(f.body_lines)
    /\ MultiLineForms(f)
    /\ NamesOnlyDefined(f)

\* C1: in a well-nested body where each excluded name occurs only in its own
\* definition, written as a multi-line block (or, for an rpc, as one line ending
\* in a semicolon), the output is the body without the lines of the excluded
\* definitions, from opener to closing line; no output line mentions an
\* excluded name and the output has as many "{" as "}".
C1_ExclusionComplete ==
    (fn = "filter" /\ C1Case(filter)) =>
        /\ filter.result = WithoutExcluded(filter)
        /\ \A k \in 1..Len(filter.result) : ~MentionsExcluded(filter, filter.result[k])
        /\ SumBalance(filter.result, 1, Len(filter.result)) = 0

\* C1 witness: an excluded message with a nested block inside it has been
\* removed, and a line after it was kept.
C1_Witness ==
    /\ fn = "filter" /\ C1Case(filter)
    /\ \E k \in 1..Len(filter.body_lines) :
          /\ ExcludedMessageAt(filter, k)
          /\ \E x \in (k + 1)..(DefinitionClose(filter.body_lines, k) - 1) :
                BraceBalance(Strip(filter.body_lines[x])) > 0
          /\ DefinitionClose(filter.body_lines, k) < Len(filter.body_lines)
    /\ filter.result # <<>>

\* C1 witness of the rpc block form: an excluded rpc opened with "{" was
\* removed with its closing line and the line after it was kept.
C1_WitnessRpcBlock ==
    /\ fn = "filter" /\ C1Case(filter)
    /\ \E k \in 1..Len(filter.body_lines) :
          /\ ExcludedRpcAt(filter, k)
          /\ DefinitionClose(filter.body_lines, k) > k
          /\ DefinitionClose(filter.body_lines, k) < Len(filter.body_lines)
    /\ filter.result # <<>>

\* C2: the output is the body without the lines of the excluded definitions
\* (opener line through the line that closes it), every other line kept, in
\* order, however the excluded definition is written.
C2_OnlyExcludedRemoved ==
    (fn = "filter" /\ filter.pc = "done") => filter.result = WithoutExcluded(filter)

\* C2, restricted to excluded definitions whose opener opens a brace or is a
\* semicolon-terminated rpc: the part of the claim the code meets.
C2_HoldsForOpenBlocks ==
    (fn = "filter" /\ filter.pc = "done" /\ MultiLineForms(filter)) =>
        filter.result = WithoutExcluded(filter)

----------------------------------------------------------------------------
(* Claims about remove_options_from_rpc_blocks, under SpecStrip.           *)

\* A line `rpc ... {`.
RpcOpenerLine(line) == StartsWithKw(Strip(line), "rpc") /\ EndsWith(Strip(line), "{")

\* The opener without its trailing "{" and trailing blanks, and a ";".
Terminated(line) ==
    LET s == RStrip(line)
    IN  RStrip(SubSeq(s, 1, Len(s) - 1)) \o <<";">>

\* Lines k..m are an rpc block whose inner lines are option lines and blank
\* lines, at least one option line, closed by a line "}".
AnnotationOnlyBlock(ls, k, m) ==
    /\ k >= 1 /\ m <= Len(ls) /\ k < m
    /\ RpcOpenerLine(ls[k])
    /\ Strip(ls[m]) = <<"}">>
    /\ \A x \in (k + 1)..(m - 1) : IsSkipOption(ls[x]) \/ IsBlank(ls[x])
    /\ \E x \in (k + 1)..(m - 1) : IsSkipOption(ls[x])

\* The iteration that stands at the opener of an annotation-only block
\* appends the terminated opener, and nothing else, and goes on after the
\* closing line.
C3Step ==
    \A m \in 1..Len(strip.body_lines) :
        (strip.pc = "loop" /\ AnnotationOnlyBlock(strip.body_lines, strip.i + 1, m)) =>
            /\ strip'.result = Append(strip.result, Terminated(strip.body_lines[strip.i + 1]))
            /\ strip'.i = m
            /\ strip'.body_lines = strip.body_lines

\* The returned list, when the block is the only rpc opener of the body: the
\* lines before, the terminated opener, the lines after.
C3Final ==
    \A k \in 1..Len(strip.body_lines) : \A m \in 1..Len(strip.body_lines) :
        (/\ strip.pc = "done"
         /\ AnnotationOnlyBlock(strip.body_lines, k, m)
         /\ \A x \in 1..Len(strip.body_lines) : IsRpcOpener(strip.body_lines[x]) => x = k) =>
            strip.result = (SubSeq(strip.body_lines, 1, k - 1)
                              \o <<Terminated(strip.body_lines[k])>>)
                              \o SubSeq(strip.body_lines, m + 1, Len(strip.body_lines))

\* C3: an rpc block of option lines (and blank lines) only becomes exactly one
\* line, the opener without its trailing "{" and blanks and with ";"; the
\* option lines, blank lines and the closing "}" are not emitted, and the lines
\* before and after the block are emitted as they are.
C3_AnnotationOnlyCollapse == [](fn = "strip" => C3Final) /\ [][fn = "strip" => C3Step]_vars

\* C3 witness: a block with an option line and a blank line inside, after
\* another line, has been collapsed into one line.
C3_Witness ==
    /\ fn = "strip" /\ strip.pc = "done"
    /\ \E k \in 2..Len(strip.body_lines) : \E m \in 1..Len(strip.body_lines) :
          /\ AnnotationOnlyBlock(strip.body_lines, k, m)
          /\ \E x \in (k + 1)..(m - 1) : IsBlank(strip.body_lines[x])
          /\ \A x \in 1..Len(strip.body_lines) : IsRpcOpener(strip.body_lines[x]) => x = k
          /\ Len(strip.result) = k + (Len(strip.body_lines) - m)
          /\ strip.result[k] = Terminated(strip.body_lines[k])

\* Line j is the first line after the opener at k that starts a definition,
\* and no line "}" comes before it.
MalformedBlock(ls, k, j) ==
    /\ k >= 1 /\ j <= Len(ls) /\ k < j
    /\ RpcOpenerLine(ls[k])
    /\ StartsDefinition(ls[j])
    /\ \A x \in (k + 1)..(j - 1) : ~StartsDefinition(ls[x]) /\ Strip(ls[x]) # <<"}">>

\* No closing line and no definition follows the opener at k.
UnclosedBlock(ls, k) ==
    /\ k >= 1 /\ k <= Len(ls)
    /\ RpcOpenerLine(ls[k])
    /\ \A x \in (k + 1)..Len(ls) : ~StartsDefinition(ls[x]) /\ Strip(ls[x]) # <<"}">>

C4Step ==
    /\ \A j \in 1..Len(strip.body_lines) :
          (strip.pc = "loop" /\ MalformedBlock(strip.body_lines, strip.i + 1, j)) =>
              /\ strip'.result =
                     Append(strip.result, Terminated(strip.body_lines[strip.i + 1]))
              /\ strip'.i = j - 1
              /\ strip'.branch = "malformed"
    /\ (strip.pc = "loop" /\ UnclosedBlock(strip.body_lines, strip.i + 1)) =>
          strip'.result = Append(strip.result, Terminated(strip.body_lines[strip.i + 1]))
    \* the iteration after a malformed block stands at the offending line
    /\ (strip.pc = "loop" /\ strip.branch = "malformed") =>
          /\ strip.i < Len(strip.body_lines)
          /\ StartsDefinition(strip.body_lines[strip.i + 1])
          /\ \/ IsRpcOpener(strip.body_lines[strip.i + 1])
             \/ strip'.result = Append(strip.result, strip.body_lines[strip.i + 1])

\* C4: an rpc opener followed by a line that starts an rpc, service or
\* message before any line "}" is emitted as one semicolon-terminated line,
\* the next iteration stands at the offending line and emits it unmodified
\* (or treats it as an rpc opener); an opener that the input ends after is
\* terminated the same way.
C4_MalformedBlock == [][fn = "strip" => C4Step]_vars

\* C4 witness: an opener, an inner line, then a message line: the opener was
\* terminated, the inner line dropped, the message line emitted next.
C4_Witness ==
    /\ fn = "strip" /\ strip.pc = "done"
    /\ Len(strip.body_lines) >= 3
    /\ MalformedBlock(strip.body_lines, 1, 3)
    /\ StartsWithKw(Strip(strip.body_lines[3]), "message")
    /\ Len(strip.result) >= 2
    /\ strip.result[1] = Terminated(strip.body_lines[1])
    /\ strip.result[2] = strip.body_lines[3]

----------------------------------------------------------------------------
(* Claims about merge_proto_files: the import block, under SpecMergeImports. *)

IsImportLine(line) == StartsWithKw(Strip(line), "import")

\* The import lines of the output, in output order.
ImportBlock(merged) == SelectSeq(merged, IsImportLine)

\* Every line of every input document.
AllInputLines(m) ==
    UNION {{m.proto_contents[d][k] : k \in 1..Len(m.proto_contents[d])} :
              d \in 1..Len(m.proto_contents)}

\* The merged path of module mod.
MergedPathOf(mod) == <<"banyandb", "/", "v1", "/", "banyandb", "-", mod, ".proto">>

\* The import lines the documents hold that parse_proto_file collects, stripped
\* and rewritten.
RewrittenImports(m) ==
    {transform_import_path(Strip(l)) :
        l \in {x \in AllInputLines(m) :
                  /\ IsImportLine(x)
                  /\ ~\E pattern \in ImportContains : Contains(x, pattern)}}

\* Those that do not name the module being merged.
ExpectedImports(m) ==
    {x \in RewrittenImports(m) :
        m.current_module = "" \/ ~Contains(x, MergedPathOf(m.current_module))}

HasGoogle(x) == Contains(x, <<"google", "/">>)
HasValidate(x) == Contains(x, <<"validate", "/">>)

\* x may not come after y: the three tiers.
TierBefore(x, y) ==
    \/ HasGoogle(x)
    \/ ~HasGoogle(y) /\ HasValidate(x)
    \/ ~HasGoogle(y) /\ ~HasValidate(y)

SameTier(x, y) ==
    /\ HasGoogle(x) = HasGoogle(y)
    /\ HasGoogle(x) \/ (HasValidate(x) = HasValidate(y))

RECURSIVE ReverseSeq(_)
ReverseSeq(ls) == IF ls = <<>> THEN <<>> ELSE Append(ReverseSeq(Tail(ls)), Head(ls))

\* The same documents in the opposite order, each with its lines in the
\* opposite order.
ReversedContents(m) ==
    [d \in 1..Len(m.proto_contents) |->
        ReverseSeq(m.proto_contents[Len(m.proto_contents) + 1 - d])]

\* C5: each distinct collected import line, stripped and rewritten, is in the
\* output exactly once; google/ imports come first, then validate/ imports,
\* then the others, each tier in ascending order of the line text; and the
\* import block does not depend on the order the documents list them in.
C5_ImportBlock ==
    (fn = "merge" /\ merge.pc = "done" /\ merge.proto_contents # <<>>) =>
        LET block == ImportBlock(merge.merged)
        IN  /\ {block[k] : k \in 1..Len(block)} = ExpectedImports(merge)
            /\ Len(block) = Cardinality(ExpectedImports(merge))
            /\ \A a \in 1..Len(block) : \A b \in (a + 1)..Len(block) :
                  /\ TierBefore(block[a], block[b])
                  /\ SameTier(block[a], block[b]) => StrLess(block[a], block[b])
            /\ block = ImportBlock(MergeRun(MergeEnter(ReversedContents(merge),
                          merge.current_module, merge.exclude_messages,
                          merge.exclude_rpcs)).merged)

\* C5 witness: four import lines in two documents, two of them naming files
\* of one module, became three lines: a google/ line and two others in order.
C5_Witness ==
    /\ fn = "merge" /\ merge.pc = "done"
    /\ Len(merge.proto_contents) = 2
    /\ Cardinality({x \in AllInputLines(merge) : IsImportLine(x)}) = 4
    /\ \A d \in 1..2 : \E k \in 1..Len(merge.proto_contents[d]) :
          IsImportLine(merge.proto_contents[d][k])
    /\ LET block == ImportBlock(merge.merged)
       IN  /\ Len(block) = 3
           /\ HasGoogle(block[1])
           /\ ~HasGoogle(block[2]) /\ ~HasValidate(block[2])
           /\ StrLess(block[2], block[3])

\* C6: with current module M, no output line contains M's merged path, and
\* every collected import that rewrites to something else is in the output.
C6_SelfImportRemoved ==
    (fn = "merge" /\ merge.pc = "done" /\ merge.current_module # "") =>
        /\ \A k \in 1..Len(merge.merged) :
              ~Contains(merge.merged[k], MergedPathOf(merge.current_module))
        /\ \A x \in RewrittenImports(merge) :
              ~Contains(x, MergedPathOf(merge.current_module)) =>
                  \E k \in 1..Len(merge.merged) : merge.merged[k] = x

\* C6 witness: imports of two files of the current module, from two
\* documents, are gone, and the import of another module's file is kept in
\* its rewritten form.
C6_Witness ==
    /\ fn = "merge" /\ merge.pc = "done" /\ merge.current_module = "common"
    /\ Len(merge.proto_contents) = 2
    /\ \E k \in 1..Len(merge.proto_contents[1]) : merge.proto_contents[1][k] = ICommon
    /\ \E k \in 1..Len(merge.proto_contents[2]) : merge.proto_contents[2][k] = ICommonRpc
    /\ IModel \in AllInputLines(merge)
    /\ ImportBlock(merge.merged) = <<ImportLine(MergedPathOf("model"))>>

----------------------------------------------------------------------------
(* Claims about merge_proto_files: header and termination, under           *)
(* SpecMergeHeader.                                                        *)

IsLicenseLine(line) == StartsWithTok(Strip(line), "//")
IsSyntaxLine(line) == StartsWithTok(Strip(line), "syntax =")
IsJavaPackageLine(line) == StartsWithTok(Strip(line), "option java_package")
IsPackageLine(line) == StartsWithKw(Strip(line), "package")

IsHeaderLine(line) ==
    IsLicenseLine(line) \/ IsSyntaxLine(line) \/ IsJavaPackageLine(line) \/ IsPackageLine(line)

\* The lines of one kind that a document holds, in order.
LinesOf(doc, IsKind(_)) == SelectSeq(doc, IsKind)

\* The header field of one kind of a document: its first line of that kind,
\* if it has one.
FieldOf(doc, IsKind(_)) ==
    IF LinesOf(doc, IsKind) = <<>> THEN <<>> ELSE <<Head(LinesOf(doc, IsKind))>>

C7Fields(m) ==
    LET first == m.proto_contents[1]
    IN  /\ LinesOf(m.merged, IsLicenseLine) = LinesOf(first, IsLicenseLine)
        /\ LinesOf(m.merged, IsSyntaxLine) = FieldOf(first, IsSyntaxLine)
        /\ LinesOf(m.merged, IsJavaPackageLine) = FieldOf(first, IsJavaPackageLine)
        /\ LinesOf(m.merged, IsPackageLine) = FieldOf(first, IsPackageLine)
        /\ Len(LinesOf(m.merged, IsSyntaxLine)) <= 1
        /\ Len(LinesOf(m.merged, IsJavaPackageLine)) <= 1
        /\ Len(LinesOf(m.merged, IsPackageLine)) <= 1

C7NoLaterHeader(m) ==
    \A d \in 2..Len(m.proto_contents) : \A k \in 1..Len(m.proto_contents[d]) :
        LET line == m.proto_contents[d][k]
        IN  (/\ IsHeaderLine(line)
             /\ \A j \in 1..Len(m.proto_contents[1]) : m.proto_contents[1][j] # line) =>
                \A x \in 1..Len(m.merged) : m.merged[x] # line

\* C7: the output holds the license, syntax, package-option and package line
\* of the first document, once each, and none when the first document has
\* none; no header line of a later document is in the output.
C7_HeaderFromFirst ==
    (fn = "merge" /\ merge.pc = "done" /\ merge.proto_contents # <<>>) =>
        C7Fields(merge) /\ C7NoLaterHeader(merge)

\* No document holds a header field twice.
NoRepeatedField(m) ==
    \A d \in 1..Len(m.proto_contents) :
        /\ Len(LinesOf(m.proto_contents[d], IsSyntaxLine)) <= 1
        /\ Len(LinesOf(m.proto_contents[d], IsJavaPackageLine)) <= 1
        /\ Len(LinesOf(m.proto_contents[d], IsPackageLine)) <= 1

\* C7 for documents that hold each header field at most once: the part of
\* the claim the code meets.
C7_HoldsWithoutRepeats ==
    (/\ fn = "merge" /\ merge.pc = "done" /\ merge.proto_contents # <<>>
     /\ NoRepeatedField(merge)) =>
        C7Fields(merge) /\ C7NoLaterHeader(merge)

\* The first document has a syntax line and no package line, the second has
\* every header field in another wording and a body: the output has the
\* first one's syntax line, no package line, and the body.
C7_Witness ==
    /\ fn = "merge" /\ merge.pc = "done"
    /\ Len(merge.proto_contents) = 2
    /\ LinesOf(merge.proto_contents[1], IsSyntaxLine) = <<LSyntax("A")>>
    /\ LinesOf(merge.proto_contents[1], IsPackageLine) = <<>>
    /\ LinesOf(merge.proto_contents[2], IsHeaderLine)
          = <<LLicense("B"), LSyntax("B"), LJavaPackage("B"), LPackage("B")>>
    /\ LinesOf(merge.merged, IsSyntaxLine) = <<LSyntax("A")>>
    /\ LinesOf(merge.merged, IsPackageLine) = <<>>
    /\ \E x \in 1..Len(merge.merged) : merge.merged[x] = LMessageQuxEmpty

\* Identical headers: both documents have the same four header
\* fields and the output has one copy of each.
C7_WitnessIdentical ==
    /\ fn = "merge" /\ merge.pc = "done"
    /\ Len(merge.proto_contents) = 2
    /\ merge.proto_contents[1] = merge.proto_contents[2]
    /\ Len(LinesOf(merge.proto_contents[1], IsHeaderLine)) = 4
    /\ Len(LinesOf(merge.merged, IsHeaderLine)) = 4

\* The tokens of the last line of a text that ends with "\n": those after
\* the line terminator before it.
RECURSIVE LastLineStart(_, _)
LastLineStart(text, k) ==
    IF k = 0 \/ text[k] = "\n" THEN k + 1 ELSE LastLineStart(text, k - 1)

LastLine(text) == SubSeq(text, LastLineStart(text, Len(text) - 1), Len(text) - 1)

\* C8: for a non-empty list of documents the returned text ends with one line
\* terminator and its last line is not blank.
C8_OutputTermination ==
    (fn = "merge" /\ merge.pc = "done" /\ merge.proto_contents # <<>>) =>
        /\ merge.text # <<>>
        /\ merge.text[Len(merge.text)] = "\n"
        /\ ~IsBlank(LastLine(merge.text))

\* C8 for inputs that put at least one non-blank line into the output: the
\* part of the claim the code meets.
C8_HoldsWhenNonEmpty ==
    (/\ fn = "merge" /\ merge.pc = "done" /\ merge.proto_contents # <<>>
     /\ merge.merged # <<>>) =>
        /\ merge.text[Len(merge.text)] = "\n"
        /\ ~IsBlank(LastLine(merge.text))

----------------------------------------------------------------------------
(* Claims about merge_proto_files: the bodies, under SpecMergeBody.        *)

\* The merged list before any body is appended.
HeadOf(m) ==
    MergeImports(MergeHeader(MergeParse(
        MergeEnter(m.proto_contents, m.current_module, m.exclude_messages,
                   m.exclude_rpcs)))).merged

\* The body content document d contributes: from its first to its last
\* non-blank line after filtering.
BodyContent(m, d) ==
    TrimTrailing(TrimLeading(BodyOf(parse_proto_file(m.proto_contents[d]),
                                    m.exclude_messages, m.exclude_rpcs)))

\* The body contents of documents d.. in order, one blank line between two.
RECURSIVE Separated(_, _)
Separated(m, d) ==
    IF d > Len(m.proto_contents) THEN <<>>
    ELSE LET rest == Separated(m, d + 1)
             own == BodyContent(m, d)
         IN  IF own = <<>> THEN rest
             ELSE IF rest = <<>> THEN own
             ELSE (own \o <<LBlank>>) \o rest

\* The output after the header and the imports, from its first non-blank line.
BodyRegion(m) == TrimLeading(SubSeq(m.merged, Len(HeadOf(m)) + 1, Len(m.merged)))

\* C9: the body contents of the documents are in the output in document
\* order, with exactly one blank line between the last body line of one
\* contributing document and the first body line of the next.
C9_OrderAndSeparator ==
    (fn = "merge" /\ merge.pc = "done" /\ merge.proto_contents # <<>>) =>
        BodyRegion(merge) = Separated(merge, 1)

\* C9 when nothing is excluded: the part of the claim the code meets.
C9_HoldsWithoutExclusion ==
    (/\ fn = "merge" /\ merge.pc = "done" /\ merge.proto_contents # <<>>
     /\ merge.exclude_messages = {} /\ merge.exclude_rpcs = {}) =>
        BodyRegion(merge) = Separated(merge, 1)

----------------------------------------------------------------------------
(* Totality of the five functions, under SpecRun.                          *)

\* The called function has returned.
Returned ==
    \/ fn = "filter" /\ filter.pc = "done"
    \/ fn = "strip" /\ strip.pc = "done"
    \/ fn = "cleanup" /\ cleanup.pc = "done"
    \/ fn = "parse" /\ parse.pc = "done"
    \/ fn = "merge" /\ merge.pc = "done"

\* The line index of each loop is within the list it scans: no read past the
\* end.
IndexInRange ==
    /\ fn = "filter" => filter.i \in 0..Len(filter.body_lines)
    /\ fn = "strip" => strip.i \in 0..Len(strip.body_lines)
    /\ fn = "cleanup" => cleanup.i \in 0..Len(cleanup.body_lines)
    /\ fn = "parse" => parse.i \in 0..Len(parse.lines)
    /\ fn = "merge" => merge.i \in 0..Len(merge.proto_contents)

\* What a returned call hands back is a list of lines, a record of fields, or
\* a text.
ReturnsValue ==
    /\ (fn = "filter" /\ filter.pc = "done") =>
          \A k \in 1..Len(filter.result) :
              \E j \in 1..Len(filter.body_lines) : filter.result[k] = filter.body_lines[j]
    /\ (fn = "strip" /\ strip.pc = "done") => Len(strip.result) <= Len(strip.body_lines)
    /\ (fn = "cleanup" /\ cleanup.pc = "done") => Len(cleanup.result) <= Len(cleanup.body_lines)
    /\ (fn = "parse" /\ parse.pc = "done") =>
          Len(parse.body) + Len(parse.imports) <= Len(parse.lines)
    /\ (fn = "merge" /\ merge.pc = "done") =>
          merge.text = <<>> \/ merge.text[Len(merge.text)] = "\n"

\* An iteration of a scanning loop leaves its index larger than it found it.
Advances ==
    /\ (fn = "filter" /\ filter.pc = "loop" /\ filter' # filter) => filter'.i > filter.i \/ filter'.pc = "done"
    /\ (fn = "strip" /\ strip.pc = "loop" /\ strip' # strip) => strip'.i > strip.i \/ strip'.pc = "done"
    /\ (fn = "cleanup" /\ cleanup.pc = "loop" /\ cleanup' # cleanup) =>
          cleanup'.i > cleanup.i \/ cleanup'.pc = "done"
    /\ (fn = "parse" /\ parse.pc = "loop" /\ parse' # parse) => parse'.i > parse.i \/ parse'.pc = "done"
    /\ (fn = "merge" /\ merge.pc = "bodies" /\ merge' # merge) => merge'.i > merge.i \/ merge'.pc = "done"

\* C10: every call of the five functions returns, no loop reads past the end
\* of its list, and every iteration of a scanning loop strictly advances the
\* line index, also on the malformed-block path of
\* remove_options_from_rpc_blocks, which resumes at the offending line.
C10_Total ==
    /\ [](fn # "idle" => <>Returned)
    /\ [](IndexInRange /\ ReturnsValue)
    /\ [][Advances]_vars

\* C10 witness: remove_options_from_rpc_blocks met an opener directly followed
\* by another opener, resumed at that line, one index further, and will scan
\* it next.
C10_Witness ==
    /\ fn = "strip" /\ strip.pc = "loop"
    /\ strip.branch = "malformed"
    /\ strip.i = strip.from + 1
    /\ strip.i < Len(strip.body_lines)
    /\ IsRpcOpener(strip.body_lines[strip.i + 1])

----------------------------------------------------------------------------
(* Claims about parse_proto_file, under SpecParse.                         *)

HasMarker(line) == \E pattern \in OptionBlocks : Contains(Strip(line), pattern)

\* The index of the last syntax or package line of a document, or 0.
RECURSIVE HeaderEnd(_, _)
HeaderEnd(lines, k) ==
    IF k = 0 \/ IsSyntaxLine(lines[k]) \/ IsPackageLine(lines[k]) THEN k
    ELSE HeaderEnd(lines, k - 1)

\* The lines from k on that option-block skipping leaves for the body: a
\* marker line is dropped; when its brace balance b is positive the lines
\* after it are dropped up to and including the first at which the running
\* balance, started at b, is zero or less.  depth is that running balance,
\* 0 outside a block.  Import lines are collected elsewhere.
RECURSIVE WithoutOptionBlocks(_, _, _)
WithoutOptionBlocks(lines, k, depth) ==
    IF k > Len(lines) THEN <<>>
    ELSE LET b == BraceBalance(Strip(lines[k]))
         IN  IF depth > 0
             THEN WithoutOptionBlocks(lines, k + 1, IF depth + b <= 0 THEN 0 ELSE depth + b)
             ELSE IF HasMarker(lines[k])
             THEN WithoutOptionBlocks(lines, k + 1, IF b > 0 THEN b ELSE 0)
             ELSE IF IsImportLine(lines[k])
             THEN WithoutOptionBlocks(lines, k + 1, 0)
             ELSE <<lines[k]>> \o WithoutOptionBlocks(lines, k + 1, 0)

\* The document has a syntax line and then a package line, both captured.
C11Case(p) ==
    /\ p.pc = "done"
    /\ p.syntax # None /\ p.package # None
    /\ \E a \in 1..Len(p.lines) : \E b \in (a + 1)..Len(p.lines) :
          IsSyntaxLine(p.lines[a]) /\ IsPackageLine(p.lines[b])

\* C11: after the syntax and package lines, a marker line with brace balance
\* b <= 0 is dropped alone and is not in body; with b > 0 the marker line and
\* the lines up to the first one that brings the running balance, started at
\* b, to zero or below are dropped, and the line after that is kept in body.
C11_OptionBlockSkipped ==
    (fn = "parse" /\ C11Case(parse)) =>
        parse.body = WithoutOptionBlocks(parse.lines, HeaderEnd(parse.lines, Len(parse.lines)) + 1, 0)

\* C11 for documents without a marker line: the part of the claim the code
\* meets.
C11_HoldsWithoutMarker ==
    (/\ fn = "parse" /\ C11Case(parse)
     /\ \A k \in 1..Len(parse.lines) : ~HasMarker(parse.lines[k])) =>
        parse.body = WithoutOptionBlocks(parse.lines, HeaderEnd(parse.lines, Len(parse.lines)) + 1, 0)

----------------------------------------------------------------------------
\* The index of the first package line from k on that has a syntax line
\* before it, or 0.
RECURSIVE EligiblePackage(_, _, _)
EligiblePackage(lines, k, seen_syntax) ==
    IF k > Len(lines) THEN 0
    ELSE IF seen_syntax /\ IsPackageLine(lines[k]) THEN k
    ELSE EligiblePackage(lines, k + 1, seen_syntax \/ IsSyntaxLine(lines[k]))

\* C12: the package field is the first line beginning with `package ` that
\* comes after a captured syntax line of the same document; it is unset when
\* there is none, and a package line before any syntax line is not captured.
C12_PackageAfterSyntax ==
    (fn = "parse" /\ parse.pc = "done") =>
        LET k == EligiblePackage(parse.lines, 1, FALSE)
        IN  parse.package = IF k = 0 THEN None ELSE parse.lines[k]

\* C12 for documents whose first package line has the syntax line before it:
\* the part of the claim the code meets.
C12_HoldsAfterSyntax ==
    (/\ fn = "parse" /\ parse.pc = "done"
     /\ \A k \in 1..Len(parse.lines) :
           IsPackageLine(parse.lines[k]) => \E a \in 1..(k - 1) : IsSyntaxLine(parse.lines[a])) =>
        LET k == EligiblePackage(parse.lines, 1, FALSE)
        IN  parse.package = IF k = 0 THEN None ELSE parse.lines[k]

----------------------------------------------------------------------------
(* Definition lines in remove_options_from_rpc_blocks, under SpecStrip.     *)

\* A line that starts an rpc, service or message definition.
IsDefinitionLine(line) ==
    \/ StartsWithKw(Strip(line), "rpc")
    \/ StartsWithKw(Strip(line), "service")
    \/ StartsWithKw(Strip(line), "message")

DefinitionLines(ls) == SelectSeq(ls, IsDefinitionLine)

\* out is the output form of the input definition line in: the line itself,
\* or for an rpc opener its semicolon-terminated form.
OutputFormOf(in, out) == out = in \/ (RpcOpenerLine(in) /\ out = Terminated(in))

DefinitionsKept(s) ==
    LET in == DefinitionLines(s.body_lines)
        out == DefinitionLines(s.result)
    IN  /\ Len(out) = Len(in)
        /\ \A k \in 1..Len(in) : OutputFormOf(in[k], out[k])

\* C13: the lines that start an rpc, service or message definition are in
\* the output once each and in input order, an rpc opener unchanged or in its
\* semicolon-terminated form, every other definition line unchanged.
C13_DefinitionLinesKept ==
    (fn = "strip" /\ strip.pc = "done") => DefinitionsKept(strip)

\* C13 for bodies in which only rpc lines pass the opener test: the part of
\* the claim the code meets.
C13_HoldsForRpcOpeners ==
    (/\ fn = "strip" /\ strip.pc = "done"
     /\ \A k \in 1..Len(strip.body_lines) :
           IsRpcOpener(strip.body_lines[k]) => RpcOpenerLine(strip.body_lines[k])) =>
        DefinitionsKept(strip)

----------------------------------------------------------------------------
(* End-to-end claims about merge_proto_files, under SpecMergeService.      *)

\* "{" count minus "}" count of a list of lines.
RECURSIVE Braces(_)
Braces(ls) ==
    IF ls = <<>> THEN 0
    ELSE (Count(Head(ls), "{") - Count(Head(ls), "}")) + Braces(Tail(ls))

\* The lines of the returned text: its tokens between the line terminators.
RECURSIVE LinesOfText(_, _)
LinesOfText(text, line) ==
    IF text = <<>> THEN (IF line = <<>> THEN <<>> ELSE <<line>>)
    ELSE IF Head(text) = "\n" THEN <<line>> \o LinesOfText(Tail(text), <<>>)
    ELSE LinesOfText(Tail(text), Append(line, Head(text)))

\* C14: when every input document has as many "{" as "}", so has the
\* returned text, for every exclusion set.
C14_BraceBalanced ==
    (/\ fn = "merge" /\ merge.pc = "done"
     /\ \A d \in 1..Len(merge.proto_contents) : Braces(merge.proto_contents[d]) = 0) =>
        Braces(LinesOfText(merge.text, <<>>)) = 0

\* The document has an rpc opener directly followed by its closing line.
HasEmptyRpcBlock(doc) ==
    \E k \in 1..(Len(doc) - 1) : RpcOpenerLine(doc[k]) /\ Strip(doc[k + 1]) = <<"}">>

\* C14 when no rpc is an opener directly followed by its closing line, and
\* nothing is excluded: the part of the claim the code meets.
C14_HoldsWithoutEmptyBlock ==
    (/\ fn = "merge" /\ merge.pc = "done"
     /\ merge.exclude_messages = {} /\ merge.exclude_rpcs = {}
     /\ \A d \in 1..Len(merge.proto_contents) : ~HasEmptyRpcBlock(merge.proto_contents[d])) =>
        Braces(LinesOfText(merge.text, <<>>)) = 0

\* The line starts the definition of the rpc or message called name.
Defines(line, name) ==
    LET s == Strip(line)
    IN  /\ Len(s) >= 3
        /\ s[1] \in {"rpc", "message"} /\ IsSpace(s[2]) /\ s[3] = name

CountDefinitions(ls, name) ==
    Cardinality({k \in 1..Len(ls) : Defines(ls[k], name)})

\* How often the documents define name.
RECURSIVE DefinedInDocs(_, _, _)
DefinedInDocs(docs, d, name) ==
    IF d > Len(docs) THEN 0
    ELSE CountDefinitions(docs[d], name) + DefinedInDocs(docs, d + 1, name)

DefinitionNames == {"Bar", "Get", "Foo", "Qux"}

\* C15: every rpc and message the documents define once, and whose name is
\* not excluded, is defined exactly once in the output, also when an excluded
\* rpc with a multi-line option block comes before it.
C15_DefinitionsOnce ==
    (fn = "merge" /\ merge.pc = "done") =>
        \A name \in DefinitionNames \ (merge.exclude_messages \cup merge.exclude_rpcs) :
            DefinedInDocs(merge.proto_contents, 1, name) = 1 =>
                CountDefinitions(merge.merged, name) = 1

\* C15 when nothing is excluded: the part of the claim the code meets.
C15_HoldsWithoutExclusion ==
    (/\ fn = "merge" /\ merge.pc = "done"
     /\ merge.exclude_messages = {} /\ merge.exclude_rpcs = {}) =>
        \A name \in DefinitionNames :
            DefinedInDocs(merge.proto_contents, 1, name) = 1 =>
                CountDefinitions(merge.merged, name) = 1

----------------------------------------------------------------------------
====
